---- MODULE Spec2Model ----
(***************************************************************************)
(* Model of box-python-gen-workshop:                                       *)
(*   utils/intelligence.py            IntelligenceManager                  *)
(*   workshops/sign/create_samples.py create_samples                       *)
(*                                                                         *)
(* Optional[T] values are sequences of length 0 (None) or 1 (a value), so  *)
(* that None never has to be compared with a value of another shape.       *)
(***************************************************************************)
EXTENDS Naturals, Sequences, FiniteSets, TLC

VARIABLES
    ctor,     \* the arguments IntelligenceManager(...) was constructed with
    mgr,      \* the manager object: self.auth, self.network_session
    maps,     \* heap of the callers' header dicts, by reference
    call,     \* per thread: the call in progress (position, arguments, locals)
    started,  \* number of calls started so far
    spc,      \* create_samples: position of the script
    folders,  \* create_samples: the folders of the account, as the server holds them
    frame,    \* create_samples: local variables (the folder objects returned so far)
    oplog     \* create_samples: the SDK calls made so far, in order

ivars == <<ctor, mgr, maps, call, started>>

svars == <<spc, folders, frame, oplog>>

vars == <<ctor, mgr, maps, call, started, spc, folders, frame, oplog>>

-----------------------------------------------------------------------------
(* Bounds and input sets *)

MaxCalls == 2

Threads == {"t1", "t2"}

None == <<>>

Some(x) == <<x>>

Auths == {Some("auth1")}

SessionArgs == {None, Some("session1")}

Modes == {"multiple_item_qa", "single_item_qa"}

Prompts == {"summarize", "translate"}

ItemLists == {<<[id |-> "f1", type |-> "file"]>>,
              <<[id |-> "f1", type |-> "file"], [id |-> "f2", type |-> "file"]>>}

Histories == {None, Some(<<[prompt |-> "hi", answer |-> "hello"]>>)}

MapRefs == {"m1", "m2"}

HeaderArgs == {None} \cup {Some(r) : r \in MapRefs}

ResponseData == {[answer |-> "yes", completion_reason |-> "done"],
                 [answer |-> "no", completion_reason |-> "done"]}

-----------------------------------------------------------------------------
(* The vendor SDK as the manager uses it *)

\* NetworkSession().base_urls.base_url of a session object
BaseUrl(session) ==
    IF session = "session1" THEN "https://proxy.example/2.0"
    ELSE "https://api.box.com/2.0"

\* {**extra_headers}: a new dict with the same entries
CopyDict(d) == [k \in DOMAIN d |-> d[k]]

\* prepare_params: a new Dict[str, str] holding the entries whose value is not None
prepare_params(d) ==
    [k \in {x \in DOMAIN d : d[x] # None} |-> d[k][1]]

\* serialize: the JSON document of a dict, keys in insertion order, None as null
JsonValue(key, v) ==
    IF key = "dialogue_history"
    THEN (IF v = None THEN <<"null">> ELSE <<"array", v[1]>>)
    ELSE IF key = "items" THEN <<"array", v>> ELSE <<"string", v>>

serialize(keys, body) ==
    [i \in 1..Len(keys) |-> <<keys[i], JsonValue(keys[i], body[keys[i]])>>]

\* deserialize(data, IntelligenceResponse)
deserialize(data) ==
    [class |-> "IntelligenceResponse",
     answer |-> data.answer,
     completion_reason |-> data.completion_reason]

-----------------------------------------------------------------------------
(* IntelligenceManager *)

\* __init__: a missing network_session becomes a new NetworkSession()
IntelligenceManagerInit(auth, network_session) ==
    [auth |-> auth,
     network_session |->
        IF network_session = None THEN "default_session" ELSE network_session[1]]

EmptyDict == [k \in {} |-> None]

Idle ==
    [pc |-> "idle", method |-> "", args |-> None, eh_before |-> None,
     request_body |-> None, headers_map |-> None,
     request |-> None, fetches |-> 0, response |-> None,
     result |-> None, thrown |-> None, exc |-> None, steps |-> <<>>]

\* the dict the local variable extra_headers names after lines 63-64 / 107-108
LocalHeaders(m, extra_headers) ==
    IF extra_headers = None THEN EmptyDict ELSE m[extra_headers[1]]

\* variant: the None entries are deleted from the caller's dict itself
HeadersStepInPlace(m, extra_headers) ==
    [maps |-> IF extra_headers = None THEN m
              ELSE [m EXCEPT ![extra_headers[1]] =
                        [k \in {x \in DOMAIN @ : @[x] # None} |-> @[k]]],
     headers_map |-> prepare_params(LocalHeaders(m, extra_headers))]

\* line 66 / 114: headers_map = prepare_params({**extra_headers});
\* the heap of caller dicts afterwards and the new headers_map
HeadersStep(m, extra_headers) ==
    [maps |-> m,
     headers_map |-> prepare_params(CopyDict(LocalHeaders(m, extra_headers)))]

\* line 65
AskBody(mode, prompt, items) ==
    [mode |-> mode, prompt |-> prompt, items |-> items]

\* variant: a missing dialogue_history is replaced by an empty list
TextGenBodyDefaultsHistory(prompt, items, dialogue_history) ==
    [prompt |-> prompt, items |-> items,
     dialogue_history |-> IF dialogue_history = None THEN Some(<<>>) ELSE dialogue_history]

\* lines 109-113
TextGenBody(prompt, items, dialogue_history) ==
    [prompt |-> prompt, items |-> items, dialogue_history |-> dialogue_history]

BodyKeys(method) ==
    IF method = "ask" THEN <<"mode", "prompt", "items">>
    ELSE <<"prompt", "items", "dialogue_history">>

\* variant: the text_gen path pasted into both methods
PathCopyPaste(method) == "/ai/text_gen"

\* lines 68 / 116
Path(method) == IF method = "ask" THEN "/ai/ask" ELSE "/ai/text_gen"

Url(self, method) == BaseUrl(self.network_session) \o Path(method)

\* variant: the request is built without the manager's auth
FetchCallNoAuth(self, method, request_body, headers_map) ==
    [url |-> Url(self, method),
     method |-> "POST",
     headers |-> headers_map,
     data |-> serialize(BodyKeys(method), request_body),
     content_type |-> "application/json",
     response_format |-> "json",
     auth |-> None,
     network_session |-> self.network_session]

\* lines 67-78 / 115-126: the arguments of fetch
FetchCall(self, method, request_body, headers_map) ==
    [url |-> Url(self, method),
     method |-> "POST",
     headers |-> headers_map,
     data |-> serialize(BodyKeys(method), request_body),
     content_type |-> "application/json",
     response_format |-> "json",
     auth |-> self.auth,
     network_session |-> self.network_session]

\* no try/except around lines 67-79 / 115-127: what the SDK raises reaches the caller
Propagate(e) == e

\* the frame of a call after lines 63-66 / 107-114
NewCall(method, args, body, h) ==
    [Idle EXCEPT !.pc = "built", !.method = method, !.args = Some(args),
                 !.eh_before = Some(LocalHeaders(maps, args.extra_headers)),
                 !.request_body = Some(body),
                 !.headers_map = Some(h.headers_map),
                 !.steps = <<"build">>]

\* intelligence_ask, lines 63-66
CallAsk(t) ==
    /\ call[t].pc = "idle"
    /\ started < MaxCalls
    /\ started' = started + 1
    /\ \E mode \in Modes, prompt \in Prompts, items \in ItemLists, eh \in HeaderArgs :
        LET h == HeadersStep(maps, eh) IN
        /\ maps' = h.maps
        /\ call' = [call EXCEPT ![t] =
                NewCall("ask",
                        [mode |-> Some(mode), prompt |-> prompt, items |-> items,
                         dialogue_history |-> None, extra_headers |-> eh],
                        AskBody(mode, prompt, items), h)]
    /\ UNCHANGED <<ctor, mgr, svars>>

\* intelligence_text_gen, lines 107-114
CallTextGen(t) ==
    /\ call[t].pc = "idle"
    /\ started < MaxCalls
    /\ started' = started + 1
    /\ \E prompt \in Prompts, items \in ItemLists, dh \in Histories, eh \in HeaderArgs :
        LET h == HeadersStep(maps, eh) IN
        /\ maps' = h.maps
        /\ call' = [call EXCEPT ![t] =
                NewCall("text_gen",
                        [mode |-> None, prompt |-> prompt, items |-> items,
                         dialogue_history |-> dh, extra_headers |-> eh],
                        TextGenBody(prompt, items, dh), h)]
    /\ UNCHANGED <<ctor, mgr, svars>>

\* variant: the headers are kept on the manager and shared by the calls in progress
SendSharedHeaders(t) ==
    /\ call[t].pc = "built"
    /\ \E u \in Threads :
        /\ call[u].pc # "idle"
        /\ call' = [call EXCEPT ![t].pc = "sent",
                                ![t].steps = @ \o <<"serialize", "POST">>,
                                ![t].fetches = @ + 1,
                                ![t].request =
                                    Some(FetchCall(mgr, call[t].method,
                                                   call[t].request_body[1],
                                                   call[u].headers_map[1]))]
    /\ UNCHANGED <<ctor, mgr, maps, started, svars>>

\* lines 67-78 / 115-126: serialize succeeds and fetch is invoked
Send(t) ==
    /\ call[t].pc = "built"
    /\ call' = [call EXCEPT ![t].pc = "sent",
                            ![t].steps = @ \o <<"serialize", "POST">>,
                            ![t].fetches = @ + 1,
                            ![t].request =
                                Some(FetchCall(mgr, call[t].method,
                                               call[t].request_body[1],
                                               call[t].headers_map[1]))]
    /\ UNCHANGED <<ctor, mgr, maps, started, svars>>

\* line 72 / 120: serialize raises, fetch is never invoked
SerializeRaises(t) ==
    /\ call[t].pc = "built"
    /\ call' = [call EXCEPT ![t].pc = "raised",
                            ![t].steps = Append(@, "serialize"),
                            ![t].thrown = Some("SerializeError"),
                            ![t].exc = Some(Propagate("SerializeError"))]
    /\ UNCHANGED <<ctor, mgr, maps, started, svars>>

\* line 67 / 115: fetch returns a response
FetchReturns(t) ==
    /\ call[t].pc = "sent"
    /\ \E data \in ResponseData :
        call' = [call EXCEPT ![t].pc = "fetched",
                             ![t].steps = Append(@, "response"),
                             ![t].response = Some([data |-> data])]
    /\ UNCHANGED <<ctor, mgr, maps, started, svars>>

\* variant: a failed fetch is tried once more
FetchRaisesRetry(t) ==
    /\ call[t].pc = "sent"
    /\ call' = IF call[t].fetches < 2
               THEN [call EXCEPT ![t].pc = "built"]
               ELSE [call EXCEPT ![t].pc = "raised",
                                 ![t].thrown = Some("FetchError"),
                                 ![t].exc = Some(Propagate("FetchError"))]
    /\ UNCHANGED <<ctor, mgr, maps, started, svars>>

\* line 67 / 115: fetch raises
FetchRaises(t) ==
    /\ call[t].pc = "sent"
    /\ call' = [call EXCEPT ![t].pc = "raised",
                            ![t].thrown = Some("FetchError"),
                            ![t].exc = Some(Propagate("FetchError"))]
    /\ UNCHANGED <<ctor, mgr, maps, started, svars>>

\* variant: the response data is returned as it came
ReturnRaw(t) ==
    /\ call[t].pc = "fetched"
    /\ call' = [call EXCEPT ![t].pc = "done",
                            ![t].steps = Append(@, "deserialize"),
                            ![t].result = Some(call[t].response[1].data)]
    /\ UNCHANGED <<ctor, mgr, maps, started, svars>>

\* line 79 / 127: return deserialize(response.data, IntelligenceResponse)
Return(t) ==
    /\ call[t].pc = "fetched"
    /\ call' = [call EXCEPT ![t].pc = "done",
                            ![t].steps = Append(@, "deserialize"),
                            ![t].result = Some(deserialize(call[t].response[1].data))]
    /\ UNCHANGED <<ctor, mgr, maps, started, svars>>

\* variant: a response that cannot be read makes the manager drop its auth
DeserializeRaisesDropsAuth(t) ==
    /\ call[t].pc = "fetched"
    /\ call' = [call EXCEPT ![t].pc = "raised",
                            ![t].steps = Append(@, "deserialize"),
                            ![t].thrown = Some("DeserializeError"),
                            ![t].exc = Some(Propagate("DeserializeError"))]
    /\ mgr' = [mgr EXCEPT !.auth = None]
    /\ UNCHANGED <<ctor, maps, started, svars>>

\* line 79 / 127: deserialize raises
DeserializeRaises(t) ==
    /\ call[t].pc = "fetched"
    /\ call' = [call EXCEPT ![t].pc = "raised",
                            ![t].steps = Append(@, "deserialize"),
                            ![t].thrown = Some("DeserializeError"),
                            ![t].exc = Some(Propagate("DeserializeError"))]
    /\ UNCHANGED <<ctor, mgr, maps, started, svars>>

\* the caller has the result or the exception; the thread may call again
Finish(t) ==
    /\ call[t].pc \in {"done", "raised"}
    /\ call' = [call EXCEPT ![t] = Idle]
    /\ UNCHANGED <<ctor, mgr, maps, started, svars>>

-----------------------------------------------------------------------------
(* workshops/sign/create_samples.py *)

NumIds == 5

RootId == 0

FolderIds == 1..NumIds

UsedIds == {f.id : f \in folders}

RootFolder == [id |-> RootId, name |-> "All Files", parent |-> None]

SamplesPath == "workshops/sign/content_samples/"

EmptyFrame ==
    [root |-> None, wks_folder |-> None, module_folder |-> None,
     docs_folder |-> None]

\* utils.box_utils.create_box_folder: a new folder of that name under the parent
create_box_folder(id, folder_name, parent_folder) ==
    [id |-> id, name |-> folder_name, parent |-> Some(parent_folder.id)]

\* utils.box_utils.folder_upload: the local directory goes into the given folder
folder_upload(folder, path) ==
    [op |-> "folder_upload", name |-> path, folder |-> folder.id]

\* an entry of the log of SDK calls: a folder creation
Created(f) == [op |-> "create_box_folder", name |-> f.name, folder |-> f.parent[1]]

\* line 15: client.folders.get_folder_by_id("0")
GetRoot ==
    /\ spc = "start"
    /\ frame' = [frame EXCEPT !.root = Some(RootFolder)]
    /\ oplog' = Append(oplog, [op |-> "get_folder_by_id", name |-> "", folder |-> RootId])
    /\ spc' = "root"
    /\ UNCHANGED <<folders, ivars>>

\* lines 14-16: wks_folder = create_box_folder(client, "workshops", root)
CreateWorkshops ==
    /\ spc = "root"
    /\ \E id \in FolderIds \ UsedIds :
        LET f == create_box_folder(id, "workshops", frame.root[1]) IN
        /\ folders' = folders \cup {f}
        /\ frame' = [frame EXCEPT !.wks_folder = Some(f)]
        /\ oplog' = Append(oplog, Created(f))
    /\ spc' = "workshops"
    /\ UNCHANGED ivars

\* line 18: module_folder = create_box_folder(client, "sign", wks_folder)
CreateSign ==
    /\ spc = "workshops"
    /\ \E id \in FolderIds \ UsedIds :
        LET f == create_box_folder(id, "sign", frame.wks_folder[1]) IN
        /\ folders' = folders \cup {f}
        /\ frame' = [frame EXCEPT !.module_folder = Some(f)]
        /\ oplog' = Append(oplog, Created(f))
    /\ spc' = "sign"
    /\ UNCHANGED ivars

\* line 19: create_box_folder(client, "signed docs", module_folder)
CreateSignedDocs ==
    /\ spc = "sign"
    /\ \E id \in FolderIds \ UsedIds :
        LET f == create_box_folder(id, "signed docs", frame.module_folder[1]) IN
        /\ folders' = folders \cup {f}
        /\ oplog' = Append(oplog, Created(f))
    /\ spc' = "signed docs"
    /\ UNCHANGED <<frame, ivars>>

\* line 20: docs_folder = create_box_folder(client, "docs", module_folder)
CreateDocs ==
    /\ spc = "signed docs"
    /\ \E id \in FolderIds \ UsedIds :
        LET f == create_box_folder(id, "docs", frame.module_folder[1]) IN
        /\ folders' = folders \cup {f}
        /\ frame' = [frame EXCEPT !.docs_folder = Some(f)]
        /\ oplog' = Append(oplog, Created(f))
    /\ spc' = "docs"
    /\ UNCHANGED ivars

\* variant: the samples go into the module folder
UploadToModuleFolder ==
    /\ spc = "docs"
    /\ oplog' = Append(oplog, folder_upload(frame.module_folder[1], SamplesPath))
    /\ spc' = "uploaded"
    /\ UNCHANGED <<folders, frame, ivars>>

\* line 22: folder_upload(client, docs_folder, "workshops/sign/content_samples/")
Upload ==
    /\ spc = "docs"
    /\ oplog' = Append(oplog, folder_upload(frame.docs_folder[1], SamplesPath))
    /\ spc' = "uploaded"
    /\ UNCHANGED <<folders, frame, ivars>>

\* the step a position is about to take
NextStep(p) ==
    CASE p = "start" -> "get_folder_by_id"
      [] p = "root" -> "workshops"
      [] p = "workshops" -> "sign"
      [] p = "sign" -> "signed docs"
      [] p = "signed docs" -> "docs"
      [] OTHER -> "folder_upload"

\* variant: a failure removes the folders created so far
RaiseWithRollback(p) ==
    [spc |-> "raised", folders |-> {RootFolder}, frame |-> EmptyFrame,
     oplog |-> Append(oplog, [op |-> "raised", name |-> NextStep(p), folder |-> RootId])]

\* what a raising SDK call leaves behind: lines 14-22 hold no try/except, so
\* the exception ends the run; nothing is undone and nothing more is called
Raise(p) ==
    [spc |-> "raised", folders |-> folders, frame |-> frame,
     oplog |-> Append(oplog, [op |-> "raised", name |-> NextStep(p), folder |-> RootId])]

\* the root lookup or a folder creation raises
StepRaises ==
    /\ spc \in {"start", "root", "workshops", "sign", "signed docs"}
    /\ LET r == Raise(spc) IN
        /\ spc' = r.spc
        /\ folders' = r.folders
        /\ frame' = r.frame
        /\ oplog' = r.oplog
    /\ UNCHANGED ivars

\* the upload raises
UploadRaises ==
    /\ spc = "docs"
    /\ spc' = "upload raised"
    /\ oplog' = Append(oplog, [op |-> "raised", name |-> "folder_upload", folder |-> RootId])
    /\ UNCHANGED <<folders, frame, ivars>>

-----------------------------------------------------------------------------

InitManager ==
    /\ \E auth \in Auths, ns \in SessionArgs :
        /\ ctor = [auth |-> auth, network_session |-> ns]
        /\ mgr = IntelligenceManagerInit(auth, ns)
    /\ maps = [r \in MapRefs |->
                IF r = "m1" THEN [k \in {"x-trace", "x-opt"} |->
                                    IF k = "x-trace" THEN Some("abc") ELSE None]
                ELSE EmptyDict]
    /\ call = [t \in Threads |-> Idle]
    /\ started = 0

InitScript ==
    /\ spc = "start"
    /\ folders = {RootFolder}
    /\ frame = EmptyFrame
    /\ oplog = <<>>

Init == InitManager /\ InitScript

Next ==
    \/ \E t \in Threads : CallAsk(t)
    \/ \E t \in Threads : CallTextGen(t)
    \/ \E t \in Threads : Send(t)
    \/ \E t \in Threads : SerializeRaises(t)
    \/ \E t \in Threads : FetchReturns(t)
    \/ \E t \in Threads : FetchRaises(t)
    \/ \E t \in Threads : Return(t)
    \/ \E t \in Threads : DeserializeRaises(t)
    \/ \E t \in Threads : Finish(t)

Spec == Init /\ [][Next]_vars

InitSamples ==
    /\ InitScript
    /\ ctor = [auth |-> None, network_session |-> None]
    /\ mgr = IntelligenceManagerInit(None, None)
    /\ maps = [r \in MapRefs |-> EmptyDict]
    /\ call = [t \in Threads |-> Idle]
    /\ started = 0

NextSamples ==
    \/ GetRoot
    \/ CreateWorkshops
    \/ CreateSign
    \/ CreateSignedDocs
    \/ CreateDocs
    \/ Upload
    \/ StepRaises
    \/ UploadRaises

SpecSamples == InitSamples /\ [][NextSamples]_vars

-----------------------------------------------------------------------------
(* Properties *)

InFlight(t) == call[t].request # None

\* C1: every intelligence_ask call POSTs to base_url + "/ai/ask", and the body
\* handed to serialize has exactly the keys mode, prompt, items, each bound to
\* the argument of the same name.
AskRequestMatchesArguments ==
    \A t \in Threads :
        call[t].method = "ask" =>
            LET a == call[t].args[1]
                b == call[t].request_body[1]
            IN  /\ DOMAIN b = {"mode", "prompt", "items"}
                /\ b.mode = a.mode[1]
                /\ b.prompt = a.prompt
                /\ b.items = a.items
                /\ InFlight(t) =>
                    /\ call[t].request[1].method = "POST"
                    /\ call[t].request[1].url =
                            BaseUrl(mgr.network_session) \o "/ai/ask"
                    /\ call[t].request[1].data =
                            << <<"mode", <<"string", a.mode[1]>> >>,
                               <<"prompt", <<"string", a.prompt>> >>,
                               <<"items", <<"array", a.items>> >> >>

AskSentThroughProxy ==
    \E t \in Threads :
        /\ call[t].method = "ask"
        /\ call[t].pc = "sent"
        /\ mgr.network_session = "session1"
        /\ call[t].request[1].url = "https://proxy.example/2.0/ai/ask"

\* C2: every intelligence_text_gen call POSTs to base_url + "/ai/text_gen", and
\* the body has exactly the keys prompt, items, dialogue_history, each bound to
\* the argument of the same name; an omitted dialogue_history is present as None.
TextGenRequestMatchesArguments ==
    \A t \in Threads :
        call[t].method = "text_gen" =>
            LET a == call[t].args[1]
                b == call[t].request_body[1]
            IN  /\ DOMAIN b = {"prompt", "items", "dialogue_history"}
                /\ b.prompt = a.prompt
                /\ b.items = a.items
                /\ b.dialogue_history = a.dialogue_history
                /\ a.dialogue_history = None => b.dialogue_history = None
                /\ InFlight(t) =>
                    /\ call[t].request[1].method = "POST"
                    /\ call[t].request[1].url =
                            BaseUrl(mgr.network_session) \o "/ai/text_gen"
                    /\ call[t].request[1].data[1] = <<"prompt", <<"string", a.prompt>> >>
                    /\ call[t].request[1].data[2] = <<"items", <<"array", a.items>> >>
                    /\ call[t].request[1].data[3][1] = "dialogue_history"
                    /\ a.dialogue_history = None =>
                            call[t].request[1].data[3] = <<"dialogue_history", <<"null">> >>

TextGenSentWithoutHistory ==
    \E t \in Threads :
        /\ call[t].method = "text_gen"
        /\ call[t].pc = "sent"
        /\ call[t].args[1].dialogue_history = None
        /\ call[t].request[1].url = "https://api.box.com/2.0/ai/text_gen"

\* C3 as stated: every request carries the auth and the network session that
\* were given to the constructor.
RequestCarriesConstructorArguments ==
    \A t \in Threads :
        InFlight(t) =>
            /\ call[t].request[1].auth = ctor.auth
            /\ Some(call[t].request[1].network_session) = ctor.network_session

\* C3 amended: every request carries the auth and the network session the
\* manager holds; the auth is the constructor's, the session is the
\* constructor's when one was given and the NetworkSession the constructor
\* created otherwise.
RequestCarriesManagerAuthAndSession ==
    /\ mgr.auth = ctor.auth
    /\ ctor.network_session # None => mgr.network_session = ctor.network_session[1]
    /\ ctor.network_session = None => mgr.network_session = "default_session"
    /\ \A t \in Threads :
        InFlight(t) =>
            /\ call[t].request[1].auth = mgr.auth
            /\ call[t].request[1].network_session = mgr.network_session

SentThroughDefaultSession ==
    \E t \in Threads :
        /\ call[t].pc = "sent"
        /\ ctor.network_session = None
        /\ call[t].request[1].network_session = "default_session"

\* C4: one call invokes fetch at most once; a failure of serialize, fetch or
\* deserialize reaches the caller unchanged, with no second fetch and no result.
NoRetryNoRecovery ==
    \A t \in Threads :
        /\ call[t].fetches <= 1
        /\ call[t].pc = "raised" =>
            /\ call[t].result = None
            /\ call[t].thrown # None
            /\ call[t].exc = call[t].thrown
            /\ call[t].thrown = Some("SerializeError") =>
                    call[t].fetches = 0 /\ call[t].request = None
            /\ call[t].thrown # Some("SerializeError") => call[t].fetches = 1
        /\ call[t].pc = "done" => call[t].fetches = 1 /\ call[t].exc = None

FetchFailureReachedCaller ==
    \E t \in Threads :
        /\ call[t].pc = "raised"
        /\ call[t].exc = Some("FetchError")
        /\ call[t].fetches = 1

CallOrder == <<"build", "serialize", "POST", "response", "deserialize">>

\* C5: within one call the steps happen in the order build, serialize, POST,
\* deserialize; the value returned is the IntelligenceResponse deserialized from
\* the data of that call's own response, never before the POST has returned.
StepsInOrderAndResultFromOwnResponse ==
    \A t \in Threads :
        /\ Len(call[t].steps) <= Len(CallOrder)
        /\ call[t].steps = SubSeq(CallOrder, 1, Len(call[t].steps))
        /\ call[t].result # None =>
            /\ call[t].steps = CallOrder
            /\ call[t].response # None
            /\ call[t].result[1] =
                    [class |-> "IntelligenceResponse",
                     answer |-> call[t].response[1].data.answer,
                     completion_reason |-> call[t].response[1].data.completion_reason]

CallReturnedAnswer ==
    \E t \in Threads :
        /\ call[t].pc = "done"
        /\ call[t].response[1].data.answer = "no"
        /\ call[t].result[1].answer = "no"

\* the request a call with these arguments sends on a manager constructed with ctor
RequestOf(method, a) ==
    FetchCall(IntelligenceManagerInit(ctor.auth, ctor.network_session), method,
              IF method = "ask" THEN AskBody(a.mode[1], a.prompt, a.items)
              ELSE TextGenBody(a.prompt, a.items, a.dialogue_history),
              prepare_params(LocalHeaders(maps, a.extra_headers)))

\* C7: no call, successful or failed, changes the manager's auth or
\* network_session, so the request of a call is determined by that call's
\* arguments and the constructor's arguments alone.
ManagerIsNeverWritten ==
    /\ [][mgr' = mgr /\ ctor' = ctor]_vars
    /\ [](\A t \in Threads :
            InFlight(t) => call[t].request[1] = RequestOf(call[t].method, call[t].args[1]))

AllCallsOver ==
    /\ started = MaxCalls
    /\ \A t \in Threads : call[t].pc = "idle"
    /\ mgr = IntelligenceManagerInit(ctor.auth, ctor.network_session)

\* C8: under any interleaving of calls on one manager, each call's path, body
\* and headers are those of its own arguments and its result is that of its own
\* response: nothing supplied to another call appears in them.
InterleavedCallsDoNotMix ==
    \A t \in Threads :
        call[t].pc # "idle" =>
            LET a == call[t].args[1] IN
            /\ call[t].request_body[1].prompt = a.prompt
            /\ call[t].request_body[1].items = a.items
            /\ call[t].headers_map[1] =
                    IF a.extra_headers = Some("m1")
                    THEN [k \in {"x-trace"} |-> "abc"] ELSE EmptyDict
            /\ InFlight(t) =>
                /\ call[t].request[1].url =
                        BaseUrl(mgr.network_session) \o
                            (IF call[t].method = "ask" THEN "/ai/ask" ELSE "/ai/text_gen")
                /\ call[t].request[1].data =
                        serialize(BodyKeys(call[t].method), call[t].request_body[1])
                /\ call[t].request[1].headers = call[t].headers_map[1]
            /\ call[t].result # None =>
                    call[t].result[1] = deserialize(call[t].response[1].data)

TwoDifferentCallsInFlight ==
    /\ call["t1"].pc = "sent"
    /\ call["t2"].pc = "fetched"
    /\ call["t1"].method # call["t2"].method
    /\ call["t1"].args[1].prompt # call["t2"].args[1].prompt
    /\ call["t1"].args[1].items # call["t2"].args[1].items
    /\ call["t1"].args[1].extra_headers # call["t2"].args[1].extra_headers

\* C9: omitted extra_headers give the headers an empty map gives, and a
\* supplied map is only read: it holds the same entries after the call as
\* before it, whether the call succeeds or fails.
CallerHeadersOnlyRead ==
    \A t \in Threads :
        call[t].pc # "idle" =>
            LET a == call[t].args[1] IN
            /\ a.extra_headers = None =>
                /\ DOMAIN call[t].headers_map[1] = {}
                /\ maps["m2"] = EmptyDict
                /\ call[t].headers_map[1] = HeadersStep(maps, Some("m2")).headers_map
            /\ a.extra_headers # None =>
                /\ maps[a.extra_headers[1]] = call[t].eh_before[1]
                /\ DOMAIN call[t].headers_map[1] =
                        {k \in DOMAIN call[t].eh_before[1] : call[t].eh_before[1][k] # None}

FailedCallWithSuppliedHeaders ==
    \E t \in Threads :
        /\ call[t].pc = "raised"
        /\ call[t].args[1].extra_headers = Some("m1")
        /\ maps["m1"]["x-opt"] = None
        /\ DOMAIN call[t].headers_map[1] = {"x-trace"}

-----------------------------------------------------------------------------
(* Properties of create_samples *)

IdsOf(name) == {f.id : f \in {g \in folders : g.name = name}}

Calls(op) == {i \in 1..Len(oplog) : oplog[i].op = op}

\* the i-th SDK call of a complete run, given the folders the server holds
IsExpectedCall(i, e) ==
    CASE i = 1 -> e = [op |-> "get_folder_by_id", name |-> "", folder |-> 0]
      [] i = 2 -> e = [op |-> "create_box_folder", name |-> "workshops", folder |-> 0]
      [] i = 3 -> e.op = "create_box_folder" /\ e.name = "sign"
                    /\ IdsOf("workshops") = {e.folder}
      [] i = 4 -> e.op = "create_box_folder" /\ e.name = "signed docs"
                    /\ IdsOf("sign") = {e.folder}
      [] i = 5 -> e.op = "create_box_folder" /\ e.name = "docs"
                    /\ IdsOf("sign") = {e.folder}
      [] i = 6 -> e.op = "folder_upload" /\ e.name = "workshops/sign/content_samples/"
                    /\ IdsOf("docs") = {e.folder}
      [] OTHER -> FALSE

\* C6: create_samples looks up the root, creates workshops under it, sign under
\* workshops, signed docs and docs under sign, and only then uploads
\* workshops/sign/content_samples/ into docs: every folder after its parent,
\* the upload after the four creations and into docs only.
SamplesCreatedInOrder ==
    /\ \A i \in 1..Len(oplog) :
            oplog[i].op # "raised" => IsExpectedCall(i, oplog[i])
    /\ \A f \in folders \ {RootFolder} :
            \E g \in folders : f.parent = Some(g.id) /\ g.id # f.id
    /\ \A i \in Calls("folder_upload") :
            /\ Cardinality(Calls("create_box_folder")) = 4
            /\ \A j \in Calls("create_box_folder") : j < i
            /\ IdsOf("docs") = {oplog[i].folder}

SamplesUploaded ==
    /\ spc = "uploaded"
    /\ Len(oplog) = 6
    /\ Cardinality(folders) = 5

NamesBefore(step) ==
    CASE step = "get_folder_by_id" -> {}
      [] step = "workshops" -> {}
      [] step = "sign" -> {"workshops"}
      [] step = "signed docs" -> {"workshops", "sign"}
      [] step = "docs" -> {"workshops", "sign", "signed docs"}
      [] OTHER -> {"workshops", "sign", "signed docs", "docs"}

\* C10: when the root lookup or a folder creation fails the run stops there:
\* no upload is started, no later folder is created, and the folders created
\* before the failure stay in place.
FailureStopsRunWithoutRollback ==
    spc = "raised" =>
        /\ Calls("folder_upload") = {}
        /\ Calls("raised") = {Len(oplog)}
        /\ oplog[Len(oplog)].name \in
                {"get_folder_by_id", "workshops", "sign", "signed docs", "docs"}
        /\ {f.name : f \in folders} =
                {"All Files"} \cup NamesBefore(oplog[Len(oplog)].name)
        /\ Cardinality(Calls("create_box_folder")) =
                Cardinality(NamesBefore(oplog[Len(oplog)].name))

DocsCreationFailed ==
    /\ spc = "raised"
    /\ oplog[Len(oplog)].name = "docs"
    /\ Cardinality(folders) = 4

====
